---- MODULE Spec2Model ----
(***************************************************************************)
(* Model of the Autoskope API client (src/api.py, src/models.py).          *)
(*                                                                         *)
(* One AutoskopeApi instance is modelled together with the transport       *)
(* sessions it holds and the server's answer to each request it sends.     *)
(* A response body is a sequence of lexical tokens; strip() and            *)
(* json.loads() are computed on that sequence.                             *)
(***************************************************************************)
EXTENDS Integers, Sequences, FiniteSets, TLC

VARIABLES
    session,        \* self._session: None or the id of a transport session
    owns_session,   \* self._owns_session
    authenticated,  \* self._authenticated
    cookie_jar,     \* self._cookie_jar: FALSE is None, TRUE is a CookieJar
    open,           \* ids of the transport sessions that are open
    created,        \* number of sessions this instance has created
    closes,         \* closes[i]: how often session i was closed by the instance
    scope,          \* "out" / "in": position relative to an `async with` block
    lastOp,         \* the last completed call, its input and its outcome
    tasks           \* tasks[t]: the call task t is suspended in, if any

vars == <<session, owns_session, authenticated, cookie_jar, open, created,
          closes, scope, lastOp, tasks>>

-----------------------------------------------------------------------------
(* Bounds *)

\* Sessions one instance may create in a behaviour.
MaxSessions == 2

\* Whitespace tokens put around a body when padding it.
MaxPad == 1

\* Entries of a `cars` array drawn for the response parser.
MaxCars == 2

\* Features of a `lastPos` collection drawn for the response parser.
MaxFeatures == 2

\* Calls on one instance that may be in flight at the same time.
MaxTasks == 2

-----------------------------------------------------------------------------
(* Sessions *)

None == 0

\* The session handed to the constructor by the caller.
CallerSession == MaxSessions + 1

SessionIds == 1..(MaxSessions + 1)

LOGIN_PATH == "/scripts/ajax/login.php"

INFO_PATH == "/scripts/ajax/app/info.php"

-----------------------------------------------------------------------------
(* Response text: a sequence of tokens *)

WS == [k |-> "ws", s |-> " "]

P(c) == [k |-> "punct", s |-> c]

\* A run of characters that is not JSON syntax.
W(x) == [k |-> "word", s |-> x]

\* A numeric lexeme.
N(x) == [k |-> "num", s |-> x]

\* null / true / false
L(x) == [k |-> "lit", s |-> x]

\* A quoted string; its content is itself a sequence of tokens.
S(content) == [k |-> "str", s |-> content]

\* Quoted plain word.
Q(x) == S(<<W(x)>>)

RECURSIVE lstrip(_)
lstrip(text) ==
    IF text # <<>> /\ Head(text).k = "ws" THEN lstrip(Tail(text)) ELSE text

RECURSIVE rstrip(_)
rstrip(text) ==
    IF text # <<>> /\ text[Len(text)].k = "ws"
    THEN rstrip(SubSeq(text, 1, Len(text) - 1))
    ELSE text

\* str.strip()
strip(text) == rstrip(lstrip(text))

-----------------------------------------------------------------------------
(* JSON values and json.loads *)

JNull == [t |-> "null", v |-> <<>>]

JBool(b) == [t |-> "bool", v |-> b]

JNum(x) == [t |-> "num", v |-> x]

JStr(content) == [t |-> "str", v |-> content]

JList(seq) == [t |-> "list", v |-> seq]

JDict(f) == [t |-> "dict", v |-> f]

EmptyDict == JDict(<<>>)

isinstance(val, type) == val.t = type

Fail == [ok |-> FALSE, val |-> JNull, next |-> 0]

Ok(val, next) == [ok |-> TRUE, val |-> val, next |-> next]

RECURSIVE SkipWs(_, _)
SkipWs(toks, i) ==
    IF i <= Len(toks) /\ toks[i].k = "ws" THEN SkipWs(toks, i + 1) ELSE i

IsPunct(toks, i, c) == i <= Len(toks) /\ toks[i] = P(c)

\* dict assignment: a repeated key keeps the last value
SetItem(f, key, val) ==
    [x \in DOMAIN f \cup {key} |-> IF x = key THEN val ELSE f[x]]

RECURSIVE ParseValue(_, _)
RECURSIVE ParseMembers(_, _, _)
RECURSIVE ParseElements(_, _, _)

ParseValue(toks, i0) ==
    LET i == SkipWs(toks, i0) IN
    IF i > Len(toks) THEN Fail
    ELSE LET tk == toks[i] IN
         CASE tk.k = "str" -> Ok(JStr(tk.s), i + 1)
           [] tk.k = "num" -> Ok(JNum(tk.s), i + 1)
           [] tk.k = "lit" ->
                Ok(IF tk.s = "null" THEN JNull ELSE JBool(tk.s = "true"), i + 1)
           [] tk = P("{") ->
                LET j == SkipWs(toks, i + 1) IN
                IF IsPunct(toks, j, "}") THEN Ok(EmptyDict, j + 1)
                ELSE ParseMembers(toks, j, <<>>)
           [] tk = P("[") ->
                LET j == SkipWs(toks, i + 1) IN
                IF IsPunct(toks, j, "]") THEN Ok(JList(<<>>), j + 1)
                ELSE ParseElements(toks, j, <<>>)
           [] OTHER -> Fail

ParseMembers(toks, i, acc) ==
    IF ~(i <= Len(toks) /\ toks[i].k = "str") THEN Fail
    ELSE LET c == SkipWs(toks, i + 1) IN
         IF ~IsPunct(toks, c, ":") THEN Fail
         ELSE LET r == ParseValue(toks, c + 1) IN
              IF ~r.ok THEN Fail
              ELSE LET e == SkipWs(toks, r.next)
                       f == SetItem(acc, toks[i].s, r.val)
                   IN  IF IsPunct(toks, e, "}") THEN Ok(JDict(f), e + 1)
                       ELSE IF IsPunct(toks, e, ",")
                            THEN ParseMembers(toks, SkipWs(toks, e + 1), f)
                            ELSE Fail

ParseElements(toks, i, acc) ==
    LET r == ParseValue(toks, i) IN
    IF ~r.ok THEN Fail
    ELSE LET e == SkipWs(toks, r.next)
             a == Append(acc, r.val)
         IN  IF IsPunct(toks, e, "]") THEN Ok(JList(a), e + 1)
             ELSE IF IsPunct(toks, e, ",")
                  THEN ParseElements(toks, e + 1, a)
                  ELSE Fail

\* json.loads: ok = FALSE stands for json.JSONDecodeError
json_loads(text) ==
    LET r == ParseValue(text, 1) IN
    IF r.ok /\ SkipWs(text, r.next) = Len(text) + 1
    THEN [ok |-> TRUE, val |-> r.val]
    ELSE [ok |-> FALSE, val |-> JNull]

\* dict.get(key, default)
Get(d, key, default) == IF key \in DOMAIN d.v THEN d.v[key] ELSE default

Key(x) == <<W(x)>>

-----------------------------------------------------------------------------
(* Server answers *)

RECURSIVE Blank(_)
Blank(n) == IF n = 0 THEN <<>> ELSE <<WS>> \o Blank(n - 1)

\* The text with up to MaxPad whitespace characters before and after it.
Padded(text) == {Blank(n) \o text \o Blank(n) : n \in 0..MaxPad}

OutdatedText ==
    <<P("{"), Q("message"), P(":"),
      Q("Du verwendest eine veraltete App-Version"), P("}")>>

HtmlText == <<W("<html>")>>

TruncatedText == <<P("{"), Q("cars"), P(":"), P("[")>>

ListText == <<P("["), P("]")>>

EmptyObjectText == <<P("{"), P("}")>>

Member(key, value) == <<Q(key), P(":")>> \o value

RECURSIVE Joined(_)
Joined(items) ==
    IF items = <<>> THEN <<>>
    ELSE IF Len(items) = 1 THEN items[1]
    ELSE items[1] \o <<P(",")>> \o Joined(Tail(items))

Object(members) == <<P("{")>> \o Joined(members) \o <<P("}")>>

Array(elements) == <<P("[")>> \o Joined(elements) \o <<P("]")>>

\* The car and the position feature of the vendor's documented example.
CarA ==
    Object(<<Member("id", <<N("5")>>), Member("name", <<Q("Car A")>>),
             Member("ex_pow", <<S(<<N("12.1")>>)>>),
             Member("bat_pow", <<S(<<N("3.9")>>)>>),
             Member("hdop", <<S(<<N("1.2")>>)>>),
             Member("device_type_id", <<S(<<N("7")>>)>>)>>)

FeatureA ==
    Object(<<Member("type", <<Q("Feature")>>),
             Member("geometry",
                    Object(<<Member("type", <<Q("Point")>>),
                             Member("coordinates",
                                    Array(<<<<N("13.4")>>, <<N("52.5")>>>>))>>)),
             Member("properties",
                    Object(<<Member("carid", <<N("5")>>),
                             Member("s", <<S(<<N("30")>>)>>),
                             Member("dt", <<Q("2024-01-01T00:00:00Z")>>),
                             Member("park", <<N("0")>>)>>))>>)

LastPosA ==
    <<S(Object(<<Member("type", <<Q("FeatureCollection")>>),
                 Member("features", Array(<<FeatureA>>))>>))>>

\* An integer literal too large for a float.
HugeInt == "1e400 written out as an integer"

Car(id, name, ex_pow, bat_pow, hdop, more) ==
    Object(<<Member("id", id), Member("name", <<Q(name)>>)>>
           \o ex_pow
           \o <<Member("bat_pow", bat_pow), Member("hdop", hdop)>>
           \o more)

\* ex_pow is an integer that no float can hold
CarHugeExPow ==
    Car(<<N("1")>>, "Huge ex_pow", <<Member("ex_pow", <<N(HugeInt)>>)>>,
        <<N("3.9")>>, <<N("1")>>, <<>>)

\* Response objects whose `cars` is not an array.
BadCarsTexts ==
    { Object(<<Member("cars", EmptyObjectText)>>),
      Object(<<Member("cars", <<L("null")>>)>>),
      Object(<<Member("cars", <<Q("none")>>), Member("lastPos", LastPosA)>>),
      Object(<<Member("lastPos", LastPosA), Member("cars", <<N("0")>>)>>) }

\* Response objects without a `cars` key.
NoCarsTexts ==
    { EmptyObjectText, OutdatedText, Object(<<Member("lastPos", LastPosA)>>) }

CarsTexts ==
    { Object(<<Member("cars", ListText)>>),
      Object(<<Member("cars", Array(<<CarA>>)), Member("lastPos", LastPosA)>>),
      Object(<<Member("cars", Array(<<CarA, CarHugeExPow>>))>>) }

NotObjectTexts == { <<>>, HtmlText, TruncatedText, ListText }

\* Bodies the login endpoint answers with.
LoginBodies == Padded(<<>>) \cup {OutdatedText, HtmlText, EmptyObjectText}

\* Bodies the info endpoint answers with.
InfoBodies ==
    BadCarsTexts \cup NoCarsTexts \cup CarsTexts \cup NotObjectTexts
    \cup Padded(EmptyObjectText)

Statuses == {200, 202, 204, 400, 401, 403}

NoBody == <<>>

\* What the transport does with one request: an HTTP response, an
\* aiohttp.ClientError, or another exception (a timeout).
Outcomes(bodies) ==
    [kind : {"response"}, status : Statuses, body : bodies]
    \cup [kind : {"ClientError", "TimeoutError"}, status : {0}, body : {NoBody}]

LoginResponses == Outcomes(LoginBodies)

InfoResponses == Outcomes(InfoBodies)

NoResponse == [kind |-> "none", status |-> 0, body |-> NoBody]

-----------------------------------------------------------------------------
(* AutoskopeApi._request *)

Raise(e) == [exc |-> e, json |-> EmptyDict]

Return(val) == [exc |-> "none", json |-> val]

\* Variant: a 202 response hands back the object that its body holds.
Accepted_ReturnBody(text) ==
    LET parsed == json_loads(text) IN
    IF parsed.ok /\ isinstance(parsed.val, "dict")
    THEN Return(parsed.val) ELSE Return(EmptyDict)

\* status 202: the body is parsed for logging only
Accepted(text) ==
    LET parsed == json_loads(text) IN
    IF parsed.ok THEN Return(EmptyDict) ELSE Return(EmptyDict)

LoginResult(status, text) ==
    IF status = 200 /\ strip(text) = <<>>
    THEN Return(EmptyDict)
    ELSE Raise("InvalidAuth")

\* Variant: the error threshold is `> 400`.
InfoResult_Above400(status, text) ==
    IF status \in {401, 403} THEN Raise("InvalidAuth")
    ELSE IF status > 400 THEN Raise("CannotConnect")
    ELSE LET parsed == json_loads(text) IN
         IF ~parsed.ok THEN Raise("CannotConnect")
         ELSE IF ~isinstance(parsed.val, "dict") THEN Raise("CannotConnect")
         ELSE Return(parsed.val)

InfoResult(status, text) ==
    IF status \in {401, 403} THEN Raise("InvalidAuth")
    ELSE IF status >= 400 THEN Raise("CannotConnect")
    ELSE LET parsed == json_loads(text) IN
         IF ~parsed.ok THEN Raise("CannotConnect")
         ELSE IF ~isinstance(parsed.val, "dict") THEN Raise("CannotConnect")
         ELSE Return(parsed.val)

\* Variant: the login path is examined before the 202 status.
HandleResponse_LoginFirst(path, status, text) ==
    IF path = LOGIN_PATH THEN LoginResult(status, text)
    ELSE IF status = 202 THEN Accepted(text)
    ELSE InfoResult(status, text)

HandleResponse(path, status, text) ==
    IF status = 202 THEN Accepted(text)
    ELSE IF path = LOGIN_PATH THEN LoginResult(status, text)
    ELSE InfoResult(status, text)

APP_VERSION == "2.40"

FORM_CONTENT_TYPE == "application/x-www-form-urlencoded"

\* The User-Agent connect() gives the sessions it creates.
ClientAgent == <<"autoskope-client/", APP_VERSION>>

\* The User-Agent of a session the caller built: aiohttp's own default.
CallerAgent == <<"Python/", "aiohttp/">>

\* Default headers of a session.
SessionAgent(id) == IF id = CallerSession THEN CallerAgent ELSE ClientAgent

\* session.request(method, url, headers=self._form_headers, data=data): the
\* headers on the wire are the session's defaults and the form headers.
OutgoingRequest(id, path) ==
    [path |-> path, session |-> id,
     content_type |-> FORM_CONTENT_TYPE,
     user_agent |-> SessionAgent(id)]

\* sent: the requests handed to the transport, each with the session used.
\* A closed session refuses the request with a RuntimeError, which the
\* catch-all handler wraps like a timeout.
_request(self, path, resp) ==
    IF self.session = None
    THEN Raise("RuntimeError") @@ [sent |-> <<>>]
    ELSE IF self.session \notin self.open
    THEN Raise("CannotConnect") @@ [sent |-> <<>>]
    ELSE (IF resp.kind = "response"
          THEN HandleResponse(path, resp.status, resp.body)
          ELSE Raise("CannotConnect"))
         @@ [sent |-> <<OutgoingRequest(self.session, path)>>]

-----------------------------------------------------------------------------
(* Session manager *)

Done(self, exc, sent, ret) ==
    [self |-> self, exc |-> exc, sent |-> sent, ret |-> ret]

NoReturn == [t |-> "raise", v |-> <<>>]

\* Variant: a rejected login leaves the authenticated flag as it was.
authenticate_KeepFlag(self, resp) ==
    IF self.session = None
    THEN Done(self, "RuntimeError", <<>>, NoReturn)
    ELSE LET r == _request(self, LOGIN_PATH, resp) IN
         IF r.exc = "InvalidAuth"
         THEN Done(self, "InvalidAuth", r.sent, NoReturn)
         ELSE IF r.exc # "none"
         THEN Done([self EXCEPT !.authenticated = FALSE], "CannotConnect",
                   r.sent, NoReturn)
         ELSE Done([self EXCEPT !.authenticated = TRUE], "none",
                   r.sent, JBool(TRUE))

authenticate(self, resp) ==
    IF self.session = None
    THEN Done(self, "RuntimeError", <<>>, NoReturn)
    ELSE LET r == _request(self, LOGIN_PATH, resp) IN
         IF r.exc = "InvalidAuth"
         THEN Done([self EXCEPT !.authenticated = FALSE], "InvalidAuth",
                   r.sent, NoReturn)
         ELSE IF r.exc # "none"
         THEN Done([self EXCEPT !.authenticated = FALSE], "CannotConnect",
                   r.sent, NoReturn)
         ELSE Done([self EXCEPT !.authenticated = TRUE], "none",
                   r.sent, JBool(TRUE))

\* aiohttp.ClientSession(...): a new open session
NewSession(self) ==
    LET id == self.created + 1 IN
    [self EXCEPT !.cookie_jar = TRUE,
                 !.session = id,
                 !.open = @ \cup {id},
                 !.created = id]

\* Variant: close() releases the session and leaves the flag alone.
close_KeepFlag(self) ==
    LET s1 == IF self.session # None /\ self.owns_session
              THEN [self EXCEPT !.open = @ \ {self.session},
                                !.closes[self.session] = @ + 1,
                                !.session = None]
              ELSE self
    IN  Done(s1, "none", <<>>, JNull)

\* Variant: close() releases whatever session is held, the caller's too.
close_AnySession(self) ==
    LET s1 == IF self.session # None
              THEN [self EXCEPT !.open = @ \ {self.session},
                                !.closes[self.session] = @ + 1,
                                !.session = None]
              ELSE self
    IN  Done([s1 EXCEPT !.authenticated = FALSE], "none", <<>>, JNull)

\* Variant: the closed session stays in self._session.
close_KeepSession(self) ==
    LET s1 == IF self.session # None /\ self.owns_session
              THEN [self EXCEPT !.open = @ \ {self.session},
                                !.closes[self.session] = @ + 1]
              ELSE self
    IN  Done([s1 EXCEPT !.authenticated = FALSE], "none", <<>>, JNull)

close(self) ==
    LET s1 == IF self.session # None /\ self.owns_session
              THEN [self EXCEPT !.open = @ \ {self.session},
                                !.closes[self.session] = @ + 1,
                                !.session = None]
              ELSE self
    IN  Done([s1 EXCEPT !.authenticated = FALSE], "none", <<>>, JNull)

\* Variant: a failed login releases the session before the error leaves.
connect_ReleaseOnFailure(self, resp) ==
    LET s1 == IF self.owns_session /\ self.session = None
              THEN NewSession(self)
              ELSE self
        r == authenticate(s1, resp)
    IN  IF ~s1.authenticated
        THEN IF r.exc # "none"
             THEN Done(close(r.self).self, r.exc, r.sent, NoReturn)
             ELSE [r EXCEPT !.ret = JNull]
        ELSE Done(s1, "none", <<>>, JNull)

\* Variant: the login is performed on every call.
connect_AlwaysAuthenticate(self, resp) ==
    LET s1 == IF self.owns_session /\ self.session = None
              THEN NewSession(self)
              ELSE self
    IN  [authenticate(s1, resp) EXCEPT !.ret =
            IF @ = NoReturn THEN NoReturn ELSE JNull]

connect(self, resp) ==
    LET s1 == IF self.owns_session /\ self.session = None
              THEN NewSession(self)
              ELSE self
    IN  IF ~s1.authenticated
        THEN [authenticate(s1, resp) EXCEPT !.ret =
                 IF @ = NoReturn THEN NoReturn ELSE JNull]
        ELSE Done(s1, "none", <<>>, JNull)

is_connected(self) == self.session # None /\ self.authenticated

\* Variant: the error of connect() leaves without cleanup.
__aenter___NoCleanup(self, resp) == connect(self, resp)

__aenter__(self, resp) ==
    LET r == connect(self, resp) IN
    IF r.exc # "none"
    THEN Done(close(r.self).self, r.exc, r.sent, NoReturn)
    ELSE r

__aexit__(self) == close(self)

-----------------------------------------------------------------------------
(* Python conversions used by the response parser *)

\* Value of a numeric lexeme, in tenths.
NumValue(lexeme) ==
    CASE lexeme = "0" -> 0
      [] lexeme = "1" -> 10
      [] lexeme = "1.2" -> 12
      [] lexeme = "3.9" -> 39
      [] lexeme = "5" -> 50
      [] lexeme = "5.0" -> 50
      [] lexeme = "7" -> 70
      [] lexeme = "12.1" -> 121
      [] lexeme = "13.4" -> 134
      [] lexeme = "30" -> 300
      [] lexeme = "52.5" -> 525
      [] OTHER -> 10 ^ 9

\* str(value); numeric lexemes are written the way repr() writes them
py_str(val) ==
    CASE val.t = "str" -> val.v
      [] val.t = "num" -> <<N(val.v)>>
      [] val.t = "null" -> <<W("None")>>
      [] val.t = "bool" -> <<W(IF val.v THEN "True" ELSE "False")>>
      [] OTHER -> <<[k |-> "repr", s |-> val]>>

Raised(e) == [exc |-> e, val |-> 0]

\* float(value)
py_float(val) ==
    CASE val.t = "num" ->
            IF val.v = HugeInt THEN Raised("OverflowError")
            ELSE [exc |-> "none", val |-> NumValue(val.v)]
      [] val.t = "bool" -> [exc |-> "none", val |-> IF val.v THEN 10 ELSE 0]
      [] val.t = "str" ->
            LET text == strip(val.v) IN
            IF Len(text) = 1 /\ text[1].k = "num"
            THEN [exc |-> "none", val |-> NumValue(text[1].s)]
            ELSE Raised("ValueError")
      [] OTHER -> Raised("TypeError")

\* bool(value)
py_bool(val) ==
    CASE val.t = "num" -> NumValue(val.v) # 0
      [] val.t = "bool" -> val.v
      [] val.t = "null" -> FALSE
      [] val.t = "str" -> val.v # <<>>
      [] val.t = "list" -> val.v # <<>>
      [] OTHER -> DOMAIN val.v # {}

-----------------------------------------------------------------------------
(* models.py *)

DEFAULT_MODEL == "Autoskope"

DEVICE_TYPE_MODELS(device_type) ==
    CASE device_type = <<N("1")>> -> "AutoskopeX"
      [] device_type = <<N("3")>> -> "Autoskope V2"
      [] device_type = <<N("5")>> -> "Autoskope V2"
      [] device_type = <<N("7")>> -> "Motoskope"
      [] device_type = <<N("8")>> -> "Bootskope"
      [] device_type = <<N("10")>> -> "Autoskope V3"
      [] device_type = <<N("11")>> -> "Solarskope"
      [] OTHER -> DEFAULT_MODEL

NoPosition == [t |-> "None", v |-> <<>>]

VehiclePosition(latitude, longitude, speed, timestamp, park_mode) ==
    [t |-> "VehiclePosition",
     v |-> [latitude |-> latitude, longitude |-> longitude, speed |-> speed,
            timestamp |-> timestamp, park_mode |-> park_mode]]

\* `longitude, latitude = value`; texts are taken to be longer than two
\* characters
Unpack2(val) ==
    CASE val.t = "list" ->
            IF Len(val.v) = 2 THEN [exc |-> "none", a |-> val.v[1], b |-> val.v[2]]
            ELSE [exc |-> "ValueError", a |-> JNull, b |-> JNull]
      [] val.t = "str" -> [exc |-> "ValueError", a |-> JNull, b |-> JNull]
      [] val.t = "dict" ->
            IF Cardinality(DOMAIN val.v) = 2
            THEN LET a == CHOOSE k \in DOMAIN val.v : TRUE
                     b == CHOOSE k \in DOMAIN val.v : k # a
                 IN  [exc |-> "none", a |-> JStr(a), b |-> JStr(b)]
            ELSE [exc |-> "ValueError", a |-> JNull, b |-> JNull]
      [] OTHER -> [exc |-> "TypeError", a |-> JNull, b |-> JNull]

\* The body of the loop over position_data["features"] for one feature whose
\* carid equals the vehicle id: a position, no position, or an exception
\* that the loop does not catch.
ParseFeature(feature) ==
    LET properties == feature.v[Key("properties")] IN
    IF Key("geometry") \notin DOMAIN feature.v
    THEN [exc |-> "none", position |-> NoPosition]
    ELSE LET geometry == feature.v[Key("geometry")] IN
         IF ~(isinstance(geometry, "dict") /\ Key("coordinates") \in DOMAIN geometry.v)
         THEN [exc |-> "none", position |-> NoPosition]
         ELSE LET coordinates == Unpack2(geometry.v[Key("coordinates")])
                  speed == py_float(Get(properties, Key("s"), JNum("0")))
              IN  IF coordinates.exc # "none"
                  THEN [exc |-> "none", position |-> NoPosition]
                  ELSE IF speed.exc = "OverflowError"
                  THEN [exc |-> "OverflowError", position |-> NoPosition]
                  ELSE IF speed.exc # "none"
                  THEN [exc |-> "none", position |-> NoPosition]
                  ELSE [exc |-> "none",
                        position |-> VehiclePosition(
                            coordinates.b, coordinates.a, speed.val,
                            Get(properties, Key("dt"), JStr(<<>>)),
                            py_bool(Get(properties, Key("park"), JBool(FALSE))))]

\* First exception of a sequence of outcomes evaluated in order.
RECURSIVE FirstExc(_)
FirstExc(outcomes) ==
    IF outcomes = <<>> THEN "none"
    ELSE IF Head(outcomes) # "none" THEN Head(outcomes)
    ELSE FirstExc(Tail(outcomes))

FieldExc(info, key) ==
    IF key \notin DOMAIN info.v THEN "KeyError" ELSE py_float(info.v[key]).exc

\* Vehicle.from_api(info, position_data); position_data is None (JNull) or
\* the single feature that api.py wraps as {"features": [feature]}
from_api(info, feature) ==
    LET required ==
            FirstExc(<<IF Key("id") \in DOMAIN info.v THEN "none" ELSE "KeyError",
                       IF Key("name") \in DOMAIN info.v THEN "none" ELSE "KeyError",
                       FieldExc(info, Key("ex_pow")),
                       FieldExc(info, Key("bat_pow")),
                       FieldExc(info, Key("hdop"))>>)
    IN
    IF required \in {"KeyError", "ValueError", "TypeError"}
    THEN [exc |-> "ValueError", vehicle |-> <<>>]
    ELSE IF required # "none"
    THEN [exc |-> required, vehicle |-> <<>>]
    ELSE LET vehicle_id == py_str(info.v[Key("id")])
             matched ==
                IF feature = JNull
                THEN [exc |-> "none", position |-> NoPosition]
                ELSE IF py_str(Get(feature.v[Key("properties")], Key("carid"), JNull))
                        = vehicle_id
                THEN ParseFeature(feature)
                ELSE [exc |-> "none", position |-> NoPosition]
             support_infos == Get(info, Key("support_infos"), JNull)
             imei == IF isinstance(support_infos, "dict")
                     THEN Get(support_infos, Key("imei"), JNull)
                     ELSE JNull
             device_type == py_str(Get(info, Key("device_type_id"), JStr(<<>>)))
         IN  IF matched.exc # "none"
             THEN [exc |-> matched.exc, vehicle |-> <<>>]
             ELSE [exc |-> "none",
                   vehicle |-> <<[id |-> vehicle_id,
                                  name |-> info.v[Key("name")],
                                  position |-> matched.position,
                                  external_voltage |-> py_float(info.v[Key("ex_pow")]).val,
                                  battery_voltage |-> py_float(info.v[Key("bat_pow")]).val,
                                  gps_quality |-> py_float(info.v[Key("hdop")]).val,
                                  imei |-> imei,
                                  model |-> DEVICE_TYPE_MODELS(device_type)]>>]

-----------------------------------------------------------------------------
(* AutoskopeApi.get_vehicles *)

IsFeatureCollection(val) ==
    /\ isinstance(val, "dict")
    /\ Get(val, Key("type"), JNull) = JStr(Key("FeatureCollection"))
    /\ isinstance(Get(val, Key("features"), JNull), "list")

HasCarid(feature) ==
    /\ isinstance(feature, "dict")
    /\ isinstance(Get(feature, Key("properties"), JNull), "dict")
    /\ Key("carid") \in DOMAIN feature.v[Key("properties")].v

RECURSIVE MapFeatures(_, _)

\* Variant: the first feature of a carid keeps its place in the map.
MapFeatures_FirstWins(features, acc) ==
    IF features = <<>> THEN acc
    ELSE LET feature == Head(features) IN
         MapFeatures(Tail(features),
                     IF /\ HasCarid(feature)
                        /\ py_str(feature.v[Key("properties")].v[Key("carid")])
                              \notin DOMAIN acc
                     THEN SetItem(acc,
                                  py_str(feature.v[Key("properties")].v[Key("carid")]),
                                  feature)
                     ELSE acc)

MapFeatures(features, acc) ==
    IF features = <<>> THEN acc
    ELSE LET feature == Head(features) IN
         MapFeatures(Tail(features),
                     IF HasCarid(feature)
                     THEN SetItem(acc,
                                  py_str(feature.v[Key("properties")].v[Key("carid")]),
                                  feature)
                     ELSE acc)

\* carid_to_feature, built from data["lastPos"]
carid_to_feature(data) ==
    LET last_pos_str == Get(data, Key("lastPos"), JNull) IN
    IF isinstance(last_pos_str, "str") /\ last_pos_str.v # <<>>
    THEN LET pos_geojson == json_loads(last_pos_str.v) IN
         IF pos_geojson.ok /\ IsFeatureCollection(pos_geojson.val)
         THEN MapFeatures(pos_geojson.val.v[Key("features")].v, <<>>)
         ELSE <<>>
    ELSE <<>>

RECURSIVE ParseCars(_, _, _)

\* Variant: the map is searched with the id as it came, so only an id that
\* is already a string finds its feature.
ParseCars_RawIdLookup(cars, features, vehicles) ==
    IF cars = <<>> THEN [exc |-> "none", vehicles |-> vehicles]
    ELSE LET car_info == Head(cars) IN
         IF ~isinstance(car_info, "dict")
         THEN ParseCars(Tail(cars), features, vehicles)
         ELSE LET raw_id == Get(car_info, Key("id"), JNull)
                  parsed == from_api(car_info,
                                     IF isinstance(raw_id, "str")
                                        /\ raw_id.v \in DOMAIN features
                                     THEN features[raw_id.v] ELSE JNull)
              IN  IF parsed.exc = "ValueError"
                  THEN ParseCars(Tail(cars), features, vehicles)
                  ELSE IF parsed.exc # "none"
                  THEN [exc |-> parsed.exc, vehicles |-> vehicles]
                  ELSE ParseCars(Tail(cars), features, vehicles \o parsed.vehicle)

\* The loop over cars_list: the vehicles appended so far and the first
\* exception other than ValueError, which ends the loop.
ParseCars(cars, features, vehicles) ==
    IF cars = <<>> THEN [exc |-> "none", vehicles |-> vehicles]
    ELSE LET car_info == Head(cars) IN
         IF ~isinstance(car_info, "dict")
         THEN ParseCars(Tail(cars), features, vehicles)
         ELSE LET car_id == py_str(Get(car_info, Key("id"), JNull))
                  parsed == from_api(car_info,
                                     IF car_id \in DOMAIN features
                                     THEN features[car_id] ELSE JNull)
              IN  IF parsed.exc = "ValueError"
                  THEN ParseCars(Tail(cars), features, vehicles)
                  ELSE IF parsed.exc # "none"
                  THEN [exc |-> parsed.exc, vehicles |-> vehicles]
                  ELSE ParseCars(Tail(cars), features, vehicles \o parsed.vehicle)

\* Variant: a `cars` value that is not a list is read as no cars.
ParseData_BadCarsAsEmpty(data) ==
    LET features == carid_to_feature(data)
        cars_list == Get(data, Key("cars"), JList(<<>>))
    IN  IF ~isinstance(cars_list, "list")
        THEN [exc |-> "none", vehicles |-> <<>>]
        ELSE ParseCars(cars_list.v, features, <<>>)

\* Variant: `cars` is read without a default.
ParseData_RequireCars(data) ==
    LET features == carid_to_feature(data)
        cars_list == Get(data, Key("cars"), JNull)
    IN  IF ~isinstance(cars_list, "list")
        THEN [exc |-> "CannotConnect", vehicles |-> <<>>]
        ELSE ParseCars(cars_list.v, features, <<>>)

\* What get_vehicles makes of the decoded response object: the vehicles, or
\* CannotConnect for a `cars` that is no list, or the exception that left
\* the loop.
ParseData(data) ==
    LET features == carid_to_feature(data)
        cars_list == Get(data, Key("cars"), JList(<<>>))
    IN  IF ~isinstance(cars_list, "list")
        THEN [exc |-> "CannotConnect", vehicles |-> <<>>]
        ELSE ParseCars(cars_list.v, features, <<>>)

\* Variant: no handler for exceptions other than the two public kinds.
Reraise_NoCatchAll(exc) == exc

\* The except clauses of get_vehicles for an exception that is not
\* InvalidAuth: CannotConnect is raised again, anything else is wrapped.
Reraise(exc) == IF exc = "CannotConnect" THEN "CannotConnect" ELSE "CannotConnect"

\* Variant: every failed fetch resets the authenticated flag.
get_vehicles_ResetOnAnyError(self, resp) ==
    IF self.session = None
    THEN Done(self, "RuntimeError", <<>>, NoReturn)
    ELSE LET r == _request(self, INFO_PATH, resp) IN
         IF r.exc = "InvalidAuth"
         THEN Done([self EXCEPT !.authenticated = FALSE], "InvalidAuth",
                   r.sent, NoReturn)
         ELSE IF r.exc # "none"
         THEN Done([self EXCEPT !.authenticated = FALSE], "CannotConnect",
                   r.sent, NoReturn)
         ELSE LET parsed == ParseData(r.json) IN
              IF parsed.exc # "none"
              THEN Done([self EXCEPT !.authenticated = FALSE],
                        Reraise(parsed.exc), r.sent, NoReturn)
              ELSE Done(self, "none", r.sent, JList(parsed.vehicles))

\* Variant: a response that cannot be turned into vehicles ends the login.
get_vehicles_LogoutOnBadData(self, resp) ==
    IF self.session = None
    THEN Done(self, "RuntimeError", <<>>, NoReturn)
    ELSE LET r == _request(self, INFO_PATH, resp) IN
         IF r.exc = "InvalidAuth"
         THEN Done([self EXCEPT !.authenticated = FALSE], "InvalidAuth", r.sent, NoReturn)
         ELSE IF r.exc # "none"
         THEN Done(self, Reraise(r.exc), r.sent, NoReturn)
         ELSE LET parsed == ParseData(r.json) IN
              IF parsed.exc # "none"
              THEN Done([self EXCEPT !.authenticated = FALSE],
                        Reraise(parsed.exc), r.sent, NoReturn)
              ELSE Done(self, "none", r.sent, JList(parsed.vehicles))

\* Variant: a rejected fetch leaves the authenticated flag as it was.
get_vehicles_KeepFlagOn401(self, resp) ==
    IF self.session = None
    THEN Done(self, "RuntimeError", <<>>, NoReturn)
    ELSE LET r == _request(self, INFO_PATH, resp) IN
         IF r.exc # "none"
         THEN Done(self, r.exc, r.sent, NoReturn)
         ELSE LET parsed == ParseData(r.json) IN
              IF parsed.exc # "none"
              THEN Done(self, Reraise(parsed.exc), r.sent, NoReturn)
              ELSE Done(self, "none", r.sent, JList(parsed.vehicles))

\* Variant: the fetch uses the session as a context manager, which closes it
\* when the fetch is over.
get_vehicles_ClosesSession(self, resp) ==
    IF self.session = None
    THEN Done(self, "RuntimeError", <<>>, NoReturn)
    ELSE LET r == _request(self, INFO_PATH, resp)
             after == [self EXCEPT !.open = self.open \ {self.session}]
         IN
         IF r.exc = "InvalidAuth"
         THEN Done([after EXCEPT !.authenticated = FALSE], "InvalidAuth", r.sent, NoReturn)
         ELSE IF r.exc # "none"
         THEN Done(after, Reraise(r.exc), r.sent, NoReturn)
         ELSE LET parsed == ParseData(r.json) IN
              IF parsed.exc # "none"
              THEN Done(after, Reraise(parsed.exc), r.sent, NoReturn)
              ELSE Done(after, "none", r.sent, JList(parsed.vehicles))

get_vehicles(self, resp) ==
    IF self.session = None
    THEN Done(self, "RuntimeError", <<>>, NoReturn)
    ELSE LET r == _request(self, INFO_PATH, resp) IN
         IF r.exc = "InvalidAuth"
         THEN Done([self EXCEPT !.authenticated = FALSE], "InvalidAuth",
                   r.sent, NoReturn)
         ELSE IF r.exc # "none"
         THEN Done(self, Reraise(r.exc), r.sent, NoReturn)
         ELSE LET parsed == ParseData(r.json) IN
              IF parsed.exc # "none"
              THEN Done(self, Reraise(parsed.exc), r.sent, NoReturn)
              ELSE Done(self, "none", r.sent, JList(parsed.vehicles))

-----------------------------------------------------------------------------
(* Inputs of the response parser *)

SeqsUpTo(set, n) == UNION {[1..k -> set] : k \in 0..n}

\* The sequences of at most n different elements of `set`.
Arrangements(set, n) ==
    { s \in SeqsUpTo(set, n) :
        \A i, j \in 1..Len(s) : i # j => s[i] # s[j] }

\* id "7" as a string, numbers as numbers, an IMEI, no device type
CarB ==
    Car(<<S(<<N("7")>>)>>, "Car B", <<Member("ex_pow", <<N("12.1")>>)>>,
        <<N("3.9")>>, <<N("1")>>,
        <<Member("support_infos", Object(<<Member("imei", <<Q("imei-B")>>)>>))>>)

CarNoExPow == Car(<<N("1")>>, "No ex_pow", <<>>, <<N("3.9")>>, <<N("1")>>, <<>>)

\* bat_pow null, hdop not a number
CarBadHdop ==
    Car(<<N("5")>>, "Bad hdop", <<Member("ex_pow", <<N("12.1")>>)>>,
        <<L("null")>>, <<Q("high")>>, <<>>)

NotACar == <<N("1")>>

CarEntries == {CarA, CarB, CarNoExPow, CarBadHdop, CarHugeExPow}

Feature(geometry, properties) ==
    Object(<<Member("type", <<Q("Feature")>>),
             Member("geometry", geometry),
             Member("properties", Object(properties))>>)

Point(coordinates) ==
    Object(<<Member("type", <<Q("Point")>>),
             Member("coordinates", Array(coordinates))>>)

\* carid 7 as a number, no speed, no timestamp, parked
FeatureB ==
    Feature(Point(<<<<N("1.2")>>, <<N("3.9")>>>>),
            <<Member("carid", <<N("7")>>), Member("park", <<L("true")>>)>>)

\* a second feature for car 5, carid as a string
FeatureA2 ==
    Feature(Point(<<<<N("0")>>, <<N("1")>>>>),
            <<Member("carid", <<S(<<N("5")>>)>>), Member("s", <<N("0")>>)>>)

FeatureBadCoordinates ==
    Feature(Point(<<<<N("13.4")>>>>), <<Member("carid", <<N("5")>>)>>)

FeatureBadSpeed ==
    Feature(Point(<<<<N("13.4")>>, <<N("52.5")>>>>),
            <<Member("carid", <<N("5")>>), Member("s", <<Q("fast")>>)>>)

FeatureHugeSpeed ==
    Feature(Point(<<<<N("13.4")>>, <<N("52.5")>>>>),
            <<Member("carid", <<N("5")>>), Member("s", <<N(HugeInt)>>)>>)

NotAFeature == <<Q("Feature")>>

\* a feature for no car: its properties have no carid
FeatureNoCarid ==
    Feature(Point(<<<<N("0")>>, <<N("1")>>>>), <<Member("s", <<N("0")>>)>>)

\* a feature whose properties are not an object
FeatureNoProperties ==
    Object(<<Member("type", <<Q("Feature")>>),
             Member("geometry", Point(<<<<N("0")>>, <<N("1")>>>>)),
             Member("properties", <<L("null")>>)>>)

FeatureEntries ==
    {FeatureA, FeatureB, FeatureA2, FeatureBadCoordinates, FeatureBadSpeed,
     FeatureHugeSpeed, NotAFeature}

FeatureCollection(features) ==
    Object(<<Member("type", <<Q("FeatureCollection")>>),
             Member("features", Array(features))>>)

\* The `lastPos` member of a response: absent, not a string, a string that
\* is not JSON, JSON that is not a FeatureCollection, or a collection.
LastPosMembers ==
    { <<>>,
      <<Member("lastPos", FeatureCollection(<<FeatureA>>))>>,
      <<Member("lastPos", <<S(HtmlText)>>)>>,
      <<Member("lastPos", <<S(FeatureA)>>)>> }
    \cup { <<Member("lastPos", <<S(FeatureCollection(features))>>)>> :
             features \in Arrangements(FeatureEntries, MaxFeatures) }

\* Every arrangement of entries with every `lastPos`, one array that has an
\* element which is not an object, and one collection whose features for
\* car 5 are followed by features that belong to no car.
ParseBodies ==
    { Object(<<Member("cars", Array(cars))>> \o last_pos) :
        cars \in Arrangements(CarEntries, MaxCars), last_pos \in LastPosMembers }
    \cup { Object(<<Member("cars", Array(<<CarB, NotACar, CarA>>)),
                   Member("lastPos", LastPosA)>>),
           Object(<<Member("cars", Array(<<CarA>>)),
                    Member("lastPos",
                           <<S(FeatureCollection(
                                 <<FeatureA2, FeatureA, FeatureNoCarid,
                                   FeatureNoProperties, NotAFeature>>))>>)>>) }

ParseResponses == [kind : {"response"}, status : {200}, body : ParseBodies]

-----------------------------------------------------------------------------
(* The state machine: one client instance and its callers *)

Self ==
    [session |-> session, owns_session |-> owns_session,
     authenticated |-> authenticated, cookie_jar |-> cookie_jar,
     open |-> open, created |-> created, closes |-> closes]

\* Tasks of the event loop that call the instance, and what a task that is
\* not inside a call looks like.
Tasks == 1..MaxTasks

Idle == [pc |-> "idle", op |-> "none", session |-> None]

NoTasks == [t \in Tasks |-> Idle]

\* The result of a call becomes the state; lastOp records the call.
Complete(op, resp, r) ==
    /\ tasks' = tasks
    /\ session' = r.self.session
    /\ owns_session' = r.self.owns_session
    /\ authenticated' = r.self.authenticated
    /\ cookie_jar' = r.self.cookie_jar
    /\ open' = r.self.open
    /\ created' = r.self.created
    /\ closes' = r.self.closes
    /\ lastOp' = [op |-> op, resp |-> resp, exc |-> r.exc, sent |-> r.sent,
                  ret |-> r.ret, pre |-> Self]

\* AutoskopeApi(host, username, password, session=None | session)
Init ==
    /\ owns_session \in BOOLEAN
    /\ session = IF owns_session THEN None ELSE CallerSession
    /\ open = IF owns_session THEN {} ELSE {CallerSession}
    /\ authenticated = FALSE
    /\ cookie_jar = FALSE
    /\ created = 0
    /\ closes = [i \in SessionIds |-> 0]
    /\ scope = "out"
    /\ tasks = NoTasks
    /\ lastOp = [op |-> "__init__", resp |-> NoResponse, exc |-> "none",
                 sent |-> <<>>, ret |-> JNull, pre |-> Self]

\* connect() may create a session only while the bound allows one more
CanCreate == ~(owns_session /\ session = None) \/ created < MaxSessions

Connect ==
    /\ CanCreate
    /\ \E resp \in LoginResponses :
          \E r \in {connect(Self, resp)} : Complete("connect", resp, r)
    /\ UNCHANGED scope

Authenticate ==
    /\ \E resp \in LoginResponses :
          \E r \in {authenticate(Self, resp)} : Complete("authenticate", resp, r)
    /\ UNCHANGED scope

GetVehicles ==
    /\ \E resp \in InfoResponses :
          \E r \in {get_vehicles(Self, resp)} : Complete("get_vehicles", resp, r)
    /\ UNCHANGED scope

Close ==
    /\ \E r \in {close(Self)} : Complete("close", NoResponse, r)
    /\ UNCHANGED scope

\* `async with api:` entry; the block is entered only if connect() succeeds
AEnter ==
    /\ scope = "out"
    /\ CanCreate
    /\ \E resp \in LoginResponses :
          \E r \in {__aenter__(Self, resp)} :
             /\ Complete("__aenter__", resp, r)
             /\ scope' = IF r.exc = "none" THEN "in" ELSE "out"

\* block exit, normally or by an exception raised in the block
AExit ==
    /\ scope = "in"
    /\ \E r \in {__aexit__(Self)} : Complete("__aexit__", NoResponse, r)
    /\ scope' = "out"

Next == Connect \/ Authenticate \/ GetVehicles \/ Close \/ AEnter \/ AExit

Spec == Init /\ [][Next]_vars

\* The response parser on its own: an instance built on the caller's
\* session, and an info response that the server gives to every fetch.
InitParse ==
    /\ owns_session = FALSE
    /\ session = CallerSession
    /\ open = {CallerSession}
    /\ authenticated = FALSE
    /\ cookie_jar = FALSE
    /\ created = 0
    /\ closes = [i \in SessionIds |-> 0]
    /\ scope = "out"
    /\ tasks = NoTasks
    /\ \E resp \in ParseResponses :
          lastOp = [op |-> "__init__", resp |-> resp, exc |-> "none",
                    sent |-> <<>>, ret |-> JNull, pre |-> Self]

Fetch ==
    /\ \E r \in {get_vehicles(Self, lastOp.resp)} :
          Complete("get_vehicles", lastOp.resp, r)
    /\ UNCHANGED scope

NextParse == Fetch

SpecParse == InitParse /\ [][NextParse]_vars

\* The request primitive on its own: self._request(method, path, data=...)
\* with either path and any outcome of the transport.
Request ==
    /\ \E path \in {LOGIN_PATH, INFO_PATH} :
          \E resp \in LoginResponses \cup InfoResponses :
             \E r \in {_request(Self, path, resp)} :
                Complete("_request", resp,
                         Done(Self, r.exc, r.sent,
                              IF r.exc = "none" THEN r.json ELSE NoReturn))
    /\ UNCHANGED scope

NextRequest == Request

SpecRequest == Init /\ [][NextRequest]_vars

-----------------------------------------------------------------------------
(* Calls interleaved at their awaits: every action is the code of one call
   from one suspension point to the next *)

\* What the server may answer to a login and to a fetch in flight.
TaskLoginResponses ==
    { [kind |-> "response", status |-> 200, body |-> NoBody],
      [kind |-> "response", status |-> 401, body |-> NoBody],
      [kind |-> "ClientError", status |-> 0, body |-> NoBody] }

TaskInfoResponses ==
    { [kind |-> "response", status |-> 200,
       body |-> Object(<<Member("cars", Array(<<CarA>>))>>)],
      [kind |-> "response", status |-> 401, body |-> NoBody],
      [kind |-> "ClientError", status |-> 0, body |-> NoBody] }

\* The fields of the instance take the values of `self`.
Become(self) ==
    /\ session' = self.session
    /\ owns_session' = self.owns_session
    /\ authenticated' = self.authenticated
    /\ cookie_jar' = self.cookie_jar
    /\ open' = self.open
    /\ created' = self.created
    /\ closes' = self.closes

\* Task t is suspended in `op` at the await named `pc`; `id` is the session
\* the awaited operation runs on.
Suspend(t, op, pc, id) ==
    /\ tasks' = [tasks EXCEPT ![t] = [pc |-> pc, op |-> op, session |-> id]]
    /\ UNCHANGED lastOp

\* The call of task t returns or raises.
Returned(t, op, resp, exc, sent) ==
    /\ tasks' = [tasks EXCEPT ![t] = Idle]
    /\ lastOp' = [op |-> op, resp |-> resp, exc |-> exc, sent |-> sent,
                  ret |-> IF exc = "none" THEN JNull ELSE NoReturn,
                  pre |-> Self]

\* What _request makes of the outcome of the transport.
Answer(path, resp) ==
    IF resp.kind = "response"
    THEN HandleResponse(path, resp.status, resp.body)
    ELSE Raise("CannotConnect")

\* authenticate() on the instance `self`, up to the await of the response:
\* no session raises RuntimeError, a closed session refuses the request, and
\* otherwise the request is out and the task waits.
BeginLogin(t, op, self) ==
    IF self.session = None
    THEN Become(self)
         /\ Returned(t, op, NoResponse, "RuntimeError", <<>>)
    ELSE IF self.session \notin self.open
    THEN Become([self EXCEPT !.authenticated = FALSE])
         /\ Returned(t, op, NoResponse, "CannotConnect", <<>>)
    ELSE Become(self)
         /\ Suspend(t, op, "login", self.session)

\* connect(): the session is created without an await; the login waits
CallConnect(t) ==
    /\ tasks[t].pc = "idle"
    /\ CanCreate
    /\ LET s1 == IF owns_session /\ session = None
                 THEN NewSession(Self)
                 ELSE Self
       IN  IF s1.authenticated
           THEN Become(s1) /\ Returned(t, "connect", NoResponse, "none", <<>>)
           ELSE BeginLogin(t, "connect", s1)
    /\ UNCHANGED scope

CallAuthenticate(t) ==
    /\ tasks[t].pc = "idle"
    /\ BeginLogin(t, "authenticate", Self)
    /\ UNCHANGED scope

\* the login response arrives: authenticate() sets the flag and leaves, and
\* connect() leaves with it
LoginAnswered(t) ==
    /\ tasks[t].pc = "login"
    /\ \E resp \in TaskLoginResponses :
          LET r == Answer(LOGIN_PATH, resp)
              exc == IF r.exc \in {"none", "InvalidAuth"}
                     THEN r.exc ELSE "CannotConnect"
          IN  /\ authenticated' = (r.exc = "none")
              /\ Returned(t, tasks[t].op, resp, exc,
                          <<OutgoingRequest(tasks[t].session, LOGIN_PATH)>>)
    /\ UNCHANGED <<session, owns_session, cookie_jar, open, created, closes,
                   scope>>

CallGetVehicles(t) ==
    /\ tasks[t].pc = "idle"
    /\ IF session = None
       THEN Returned(t, "get_vehicles", NoResponse, "RuntimeError", <<>>)
       ELSE IF session \notin open
       THEN Returned(t, "get_vehicles", NoResponse, Reraise("RuntimeError"), <<>>)
       ELSE Suspend(t, "get_vehicles", "info", session)
    /\ UNCHANGED <<session, owns_session, authenticated, cookie_jar, open,
                   created, closes, scope>>

\* the info response arrives and get_vehicles() parses it
InfoAnswered(t) ==
    /\ tasks[t].pc = "info"
    /\ \E resp \in TaskInfoResponses :
          LET r == Answer(INFO_PATH, resp)
              parsed == ParseData(r.json)
              exc == IF r.exc = "InvalidAuth" THEN "InvalidAuth"
                     ELSE IF r.exc # "none" THEN Reraise(r.exc)
                     ELSE IF parsed.exc # "none" THEN Reraise(parsed.exc)
                     ELSE "none"
          IN  /\ authenticated' = IF exc = "InvalidAuth" THEN FALSE
                                  ELSE authenticated
              /\ Returned(t, "get_vehicles", resp, exc,
                          <<OutgoingRequest(tasks[t].session, INFO_PATH)>>)
    /\ UNCHANGED <<session, owns_session, cookie_jar, open, created, closes,
                   scope>>

\* close() up to `await self._session.close()`: the session is closed and
\* the task waits for the transport to wind down; without a session to close
\* the flag is reset and the call is over
CallClose(t) ==
    /\ tasks[t].pc = "idle"
    /\ IF session # None /\ owns_session
       THEN /\ open' = open \ {session}
            /\ closes' = [closes EXCEPT ![session] = @ + 1]
            /\ Suspend(t, "close", "closing", session)
            /\ UNCHANGED authenticated
       ELSE /\ authenticated' = FALSE
            /\ Returned(t, "close", NoResponse, "none", <<>>)
            /\ UNCHANGED <<open, closes>>
    /\ UNCHANGED <<session, owns_session, cookie_jar, created, scope>>

\* close() after the await: self._session = None, self._authenticated = False
CloseResumed(t) ==
    /\ tasks[t].pc = "closing"
    /\ session' = None
    /\ authenticated' = FALSE
    /\ Returned(t, "close", NoResponse, "none", <<>>)
    /\ UNCHANGED <<owns_session, cookie_jar, open, created, closes, scope>>

\* An instance that owns its session.
InitTasks == Init /\ owns_session

NextTasks ==
    \E t \in Tasks :
        \/ CallConnect(t)
        \/ CallAuthenticate(t)
        \/ LoginAnswered(t)
        \/ CallGetVehicles(t)
        \/ InfoAnswered(t)
        \/ CallClose(t)
        \/ CloseResumed(t)

SpecTasks == InitTasks /\ [][NextTasks]_vars

TypeOK ==
    /\ session \in {None} \cup SessionIds
    /\ owns_session \in BOOLEAN
    /\ authenticated \in BOOLEAN
    /\ cookie_jar \in BOOLEAN
    /\ open \subseteq SessionIds
    /\ created \in 0..MaxSessions
    /\ scope \in {"out", "in"}
    /\ tasks \in [Tasks -> [pc : {"idle", "login", "info", "closing"},
                            op : {"none", "connect", "authenticate",
                                  "get_vehicles", "close"},
                            session : {None} \cup SessionIds]]

-----------------------------------------------------------------------------
(* Properties *)

\* The last call was `op`, it sent one request to `path` and the server
\* answered with an HTTP response.
Answered(op, path) ==
    /\ lastOp.op = op
    /\ lastOp.resp.kind = "response"
    /\ Len(lastOp.sent) = 1
    /\ lastOp.sent[1].path = path
    /\ lastOp.sent[1].session = lastOp.pre.session

Failed == lastOp.exc # "none"

\* The decoded body of the last response is an object (status below 400,
\* not 202).
AnsweredObject ==
    /\ Answered("get_vehicles", INFO_PATH)
    /\ lastOp.resp.status < 400
    /\ lastOp.resp.status # 202
    /\ LET parsed == json_loads(lastOp.resp.body)
       IN  parsed.ok /\ isinstance(parsed.val, "dict")

LastObject == json_loads(lastOp.resp.body).val

\* No session created by the instance is open.
NoneOpen == open \cap (1..created) = {}

\* C1: authenticate() succeeds when the login response is 200 with an empty
\* body or 202 with any body: it returns True and the state afterwards is
\* authenticated.
C1_LoginAccepted ==
    ( /\ Answered("authenticate", LOGIN_PATH)
      /\ \/ lastOp.resp.status = 200 /\ lastOp.resp.body = <<>>
         \/ lastOp.resp.status = 202 )
    => /\ lastOp.exc = "none"
       /\ lastOp.ret = JBool(TRUE)
       /\ authenticated
       /\ is_connected(Self)

C1_Witness ==
    /\ Answered("authenticate", LOGIN_PATH)
    /\ lastOp.resp.status = 202
    /\ lastOp.resp.body = OutdatedText
    /\ lastOp.exc = "none"
    /\ authenticated

\* C2 as stated: every login response other than (200, empty body) and 202
\* makes authenticate() fail with InvalidAuth and leaves the state
\* unauthenticated.
C2_Original ==
    ( /\ Answered("authenticate", LOGIN_PATH)
      /\ ~(lastOp.resp.status = 200 /\ lastOp.resp.body = <<>>)
      /\ lastOp.resp.status # 202 )
    => /\ lastOp.exc = "InvalidAuth"
       /\ ~authenticated

\* C2 amended: every login response other than (200, body empty or only
\* whitespace) and 202 makes authenticate() fail with InvalidAuth and leaves
\* the state unauthenticated, whatever it was before.
C2_LoginRejected ==
    ( /\ Answered("authenticate", LOGIN_PATH)
      /\ ~(lastOp.resp.status = 200 /\ strip(lastOp.resp.body) = <<>>)
      /\ lastOp.resp.status # 202 )
    => /\ lastOp.exc = "InvalidAuth"
       /\ ~authenticated
       /\ ~is_connected(Self)

C2_Witness ==
    /\ Answered("authenticate", LOGIN_PATH)
    /\ lastOp.pre.authenticated
    /\ lastOp.resp.status = 200
    /\ lastOp.resp.body = EmptyObjectText
    /\ lastOp.exc = "InvalidAuth"
    /\ ~authenticated

\* C3 as stated: on the login endpoint and on the info endpoint alike,
\* status 401/403 is reported as InvalidAuth and any other status >= 400 as
\* CannotConnect.
C3_Original ==
    ( /\ Answered("authenticate", LOGIN_PATH) \/ Answered("get_vehicles", INFO_PATH)
      /\ lastOp.resp.status >= 400 )
    => lastOp.exc = IF lastOp.resp.status \in {401, 403}
                    THEN "InvalidAuth" ELSE "CannotConnect"

\* C3 amended: on the info endpoint status 401/403 is reported as
\* InvalidAuth and any other status >= 400 as CannotConnect; on the login
\* endpoint every status >= 400 is reported as InvalidAuth.
C3_StatusPolicy ==
    /\ ( Answered("get_vehicles", INFO_PATH) /\ lastOp.resp.status >= 400 )
       => lastOp.exc = IF lastOp.resp.status \in {401, 403}
                       THEN "InvalidAuth" ELSE "CannotConnect"
    /\ ( Answered("authenticate", LOGIN_PATH) /\ lastOp.resp.status >= 400 )
       => lastOp.exc = "InvalidAuth"

C3_Witness ==
    /\ Answered("get_vehicles", INFO_PATH)
    /\ lastOp.resp.status = 400
    /\ lastOp.resp.body \in CarsTexts
    /\ lastOp.exc = "CannotConnect"

\* C4 as stated: after a failed connect() the session is released and the
\* state is disconnected.
C4_Original ==
    ( lastOp.op = "connect" /\ Failed )
    => /\ session = None
       /\ ~authenticated
       /\ NoneOpen

\* C4 amended: after a failed connect() the state is not authenticated but
\* the session is still held and open (connected-unauthenticated): connect()
\* releases nothing.
C4_FailedConnectKeepsSession ==
    ( lastOp.op = "connect" /\ Failed )
    => /\ ~authenticated
       /\ session # None
       /\ session \in open
       /\ lastOp.pre.session # None => session = lastOp.pre.session
       /\ closes = lastOp.pre.closes

C4_Witness ==
    /\ lastOp.op = "connect"
    /\ lastOp.exc = "InvalidAuth"
    /\ owns_session
    /\ lastOp.pre.session = None
    /\ session \in open

\* C5: when the client is used as an `async with` block, a failed entry and
\* every exit leave no owned session held, no created session open and the
\* instance not authenticated.
C5_ScopeReleases ==
    ( lastOp.op = "__aexit__" \/ (lastOp.op = "__aenter__" /\ Failed) )
    => /\ owns_session => session = None
       /\ NoneOpen
       /\ ~authenticated
       /\ scope = "out"

C5_Witness ==
    /\ lastOp.op = "__aenter__"
    /\ Failed
    /\ owns_session
    /\ lastOp.pre.session = None
    /\ created = lastOp.pre.created + 1
    /\ closes[created] = 1
    /\ open = {}

\* C6 as stated: get_vehicles() leaves the held session and the
\* authenticated flag as they were, whether it succeeds or fails.
C6_Original ==
    lastOp.op = "get_vehicles"
    => /\ session = lastOp.pre.session
       /\ authenticated = lastOp.pre.authenticated

\* C6 amended: get_vehicles() never changes the held session, and leaves the
\* authenticated flag as it was unless it fails with InvalidAuth, in which
\* case the flag is false afterwards.
C6_GetVehiclesFrame ==
    lastOp.op = "get_vehicles"
    => /\ session = lastOp.pre.session
       /\ open = lastOp.pre.open
       /\ created = lastOp.pre.created
       /\ closes = lastOp.pre.closes
       /\ authenticated = IF lastOp.exc = "InvalidAuth"
                          THEN FALSE ELSE lastOp.pre.authenticated

C6_Witness ==
    /\ Answered("get_vehicles", INFO_PATH)
    /\ lastOp.exc = "InvalidAuth"
    /\ lastOp.pre.authenticated
    /\ ~authenticated
    /\ session # None
    /\ session = lastOp.pre.session

\* C7: close() never fails, leaves the authenticated flag and is_connected
\* false, releases an owned session at most once and never the caller's, and
\* a second close() changes nothing.
C7_CloseIdempotent ==
    /\ lastOp.op = "close"
       => /\ lastOp.exc = "none"
          /\ ~authenticated
          /\ ~is_connected(Self)
          /\ close(Self).self = Self
          /\ close(Self).exc = "none"
    /\ \A i \in SessionIds : closes[i] <= 1
    /\ closes[CallerSession] = 0

C7_Witness ==
    /\ lastOp.op = "close"
    /\ owns_session
    /\ lastOp.pre.session = None
    /\ lastOp.pre.created >= 1
    /\ closes[1] = 1

\* C8: connect() on an instance that holds a session creates no session;
\* when the state is authenticated it sends nothing and changes nothing,
\* when it is unauthenticated it sends exactly the login over that session.
C8_ConnectIdempotent ==
    ( lastOp.op = "connect" /\ lastOp.pre.session # None )
    => /\ session = lastOp.pre.session
       /\ created = lastOp.pre.created
       /\ open = lastOp.pre.open
       /\ lastOp.pre.authenticated
          => /\ lastOp.sent = <<>>
             /\ lastOp.exc = "none"
             /\ Self = lastOp.pre
       /\ ~lastOp.pre.authenticated
          => /\ Len(lastOp.sent) = 1
             /\ lastOp.sent[1].path = LOGIN_PATH
             /\ lastOp.sent[1].session = lastOp.pre.session

C8_Witness ==
    /\ lastOp.op = "connect"
    /\ owns_session
    /\ lastOp.pre.session # None
    /\ lastOp.pre.authenticated
    /\ lastOp.sent = <<>>
    /\ authenticated

\* C9: when the response object has a `cars` value that is not an array,
\* get_vehicles() fails with CannotConnect and returns no list.
C9_BadCarsFails ==
    ( /\ AnsweredObject
      /\ Key("cars") \in DOMAIN LastObject.v
      /\ ~isinstance(LastObject.v[Key("cars")], "list") )
    => /\ lastOp.exc = "CannotConnect"
       /\ lastOp.ret = NoReturn

C9_Witness ==
    /\ AnsweredObject
    /\ Key("lastPos") \in DOMAIN LastObject.v
    /\ Key("cars") \in DOMAIN LastObject.v
    /\ isinstance(LastObject.v[Key("cars")], "str")
    /\ lastOp.exc = "CannotConnect"

\* No `cars` key reaches get_vehicles(): the response is 202, or an object
\* without that key.
AnsweredWithoutCars ==
    /\ Answered("get_vehicles", INFO_PATH)
    /\ \/ lastOp.resp.status = 202
       \/ AnsweredObject /\ Key("cars") \notin DOMAIN LastObject.v

\* C10 as stated: when the response object has no `cars` key (also the empty
\* object of a 202 response), get_vehicles() fails with CannotConnect.
C10_Original == AnsweredWithoutCars => lastOp.exc = "CannotConnect"

\* C10 amended: when the response object has no `cars` key (also the empty
\* object of a 202 response), get_vehicles() does not fail: it returns the
\* empty list.
C10_NoCarsIsEmptyList ==
    AnsweredWithoutCars
    => /\ lastOp.exc = "none"
       /\ lastOp.ret = JList(<<>>)

C10_Witness ==
    /\ AnsweredWithoutCars
    /\ lastOp.resp.status = 202
    /\ lastOp.resp.body \in CarsTexts
    /\ lastOp.ret = JList(<<>>)

-----------------------------------------------------------------------------
(* Properties of the response parser *)

\* The last fetch was answered with an object whose `cars` is an array.
AnsweredCars ==
    /\ AnsweredObject
    /\ LET data == LastObject
       IN  Key("cars") \in DOMAIN data.v /\ isinstance(data.v[Key("cars")], "list")

LastCars == LastObject.v[Key("cars")].v

FloatFields == {Key("ex_pow"), Key("bat_pow"), Key("hdop")}

\* An entry that is an object with id, name and float-coercible ex_pow,
\* bat_pow and hdop.
ValidEntry(entry) ==
    /\ isinstance(entry, "dict")
    /\ {Key("id"), Key("name")} \cup FloatFields \subseteq DOMAIN entry.v
    /\ \A k \in FloatFields : py_float(entry.v[k]).exc = "none"

ValidCars == SelectSeq(LastCars, ValidEntry)

\* C11 as stated: for every `cars` array get_vehicles() returns exactly one
\* Vehicle per valid entry, in the order of `cars`; every other entry is
\* skipped without raising and does not keep the valid ones from being
\* returned.
C11_Original ==
    AnsweredCars
    => /\ lastOp.exc = "none"
       /\ isinstance(lastOp.ret, "list")
       /\ Len(lastOp.ret.v) = Len(ValidCars)
       /\ \A i \in 1..Len(ValidCars) :
             /\ lastOp.ret.v[i].id = py_str(ValidCars[i].v[Key("id")])
             /\ lastOp.ret.v[i].name = ValidCars[i].v[Key("name")]

LastPos == Get(LastObject, Key("lastPos"), JNull)

\* The features of `lastPos` when it is a string holding a FeatureCollection,
\* no features otherwise.
CollectionFeatures ==
    LET last_pos == LastPos IN
    IF ~isinstance(last_pos, "str") THEN <<>>
    ELSE LET parsed == json_loads(last_pos.v) IN
         IF parsed.ok /\ IsFeatureCollection(parsed.val)
         THEN parsed.val.v[Key("features")].v
         ELSE <<>>

\* Positions in `features` of the features whose stringified carid is `id`.
Matching(features, id) ==
    { j \in 1..Len(features) :
        /\ HasCarid(features[j])
        /\ py_str(features[j].v[Key("properties")].v[Key("carid")]) = id }

\* C12: each returned Vehicle's id is the string form of its entry's id; its
\* position is non-null only if lastPos is a FeatureCollection with a feature
\* whose stringified carid equals that id, and is then the position of such
\* a feature; when every such feature is well-formed the position is
\* non-null, whether id and carid are numbers or strings.
C12_JoinByStringId ==
    ( lastOp.exc = "none" /\ AnsweredCars )
    => LET cars == ValidCars
           features == CollectionFeatures
       IN  /\ Len(lastOp.ret.v) = Len(cars)
           /\ \A i \in 1..Len(cars) :
                 LET vehicle == lastOp.ret.v[i]
                     m == Matching(features, vehicle.id)
                 IN  /\ vehicle.id = py_str(cars[i].v[Key("id")])
                     /\ m = {} => vehicle.position = NoPosition
                     /\ vehicle.position # NoPosition
                        => \E j \in m :
                              vehicle.position = ParseFeature(features[j]).position
                     /\ ( /\ m # {}
                          /\ \A j \in m :
                                ParseFeature(features[j]).position # NoPosition )
                        => vehicle.position # NoPosition

C12_Witness ==
    /\ AnsweredCars
    /\ lastOp.exc = "none"
    /\ Len(CollectionFeatures) = 1
    /\ Len(lastOp.ret.v) = 2
    /\ lastOp.ret.v[1].id = <<N("7")>>
    /\ lastOp.ret.v[1].position # NoPosition
    /\ lastOp.ret.v[2].id = <<N("5")>>
    /\ lastOp.ret.v[2].position = NoPosition

\* No required field of a cars entry is too large for a float, so whatever
\* goes wrong lies in the position data.
SoundEntries ==
    \A i \in 1..Len(LastCars) :
        isinstance(LastCars[i], "dict")
        => \A k \in FloatFields \cap DOMAIN LastCars[i].v :
              py_float(LastCars[i].v[k]).exc # "OverflowError"

\* C13 as stated: whatever `lastPos` holds, and whatever the feature matched
\* to a vehicle holds, the fetch succeeds and returns every valid cars entry.
C13_Original ==
    ( AnsweredCars /\ SoundEntries )
    => /\ lastOp.exc = "none"
       /\ isinstance(lastOp.ret, "list")
       /\ Len(lastOp.ret.v) = Len(ValidCars)

------------------------------------------------------------------------------
(* Properties of the session manager, continued *)

PublicErrors == {"InvalidAuth", "CannotConnect"}

Entered(ops) == lastOp.op \in ops

\* C14 as stated: whatever connect(), authenticate() or get_vehicles() raises,
\* in any session state, is InvalidAuth or CannotConnect.
C14_Original ==
    Entered({"connect", "authenticate", "get_vehicles"})
    => lastOp.exc \in {"none"} \cup PublicErrors

\* C14: connect() raises only InvalidAuth or CannotConnect; authenticate()
\* and get_vehicles() raise only these two while a session is held, and
\* RuntimeError, before anything is sent, when none is held (before connect()
\* or after close()). Transport failures and unexpected exceptions arrive as
\* CannotConnect.
C14_PublicErrors ==
    /\ Entered({"connect", "authenticate", "get_vehicles"})
       => \/ lastOp.exc \in {"none"} \cup PublicErrors
          \/ /\ lastOp.exc = "RuntimeError"
             /\ lastOp.op # "connect"
             /\ lastOp.pre.session = None
             /\ lastOp.sent = <<>>
    /\ ( /\ Entered({"connect", "authenticate", "get_vehicles"})
         /\ lastOp.sent # <<>>
         /\ lastOp.resp.kind \in {"ClientError", "TimeoutError"} )
       => lastOp.exc = "CannotConnect"
    /\ ( Entered({"authenticate", "get_vehicles"}) /\ lastOp.pre.session = None )
       => lastOp.exc = "RuntimeError"

C14_Witness ==
    /\ lastOp.op = "get_vehicles"
    /\ lastOp.pre.authenticated
    /\ lastOp.sent # <<>>
    /\ lastOp.resp.kind = "TimeoutError"
    /\ lastOp.exc = "CannotConnect"

\* C15 as stated: every request the client sends, on its own session or on
\* the caller's, carries the user-agent autoskope-client/<version>.
C15_Original ==
    \A i \in 1..Len(lastOp.sent) : lastOp.sent[i].user_agent = ClientAgent

------------------------------------------------------------------------------
(* Properties of the request primitive *)

\* _request sent a request to `path` and the server answered.
Requested(path) == Answered("_request", path)

Decoded == json_loads(lastOp.resp.body)

\* C16: for a response to a path other than the login path, with a status
\* below 400 other than 202, _request returns the decoded body when it is a
\* JSON object and raises CannotConnect when it is not valid JSON or not an
\* object; on the login path and for status 202 whatever it returns is the
\* empty object, never the body.
C16_DecodePolicy ==
    /\ ( Requested(INFO_PATH) /\ lastOp.resp.status # 202
                               /\ lastOp.resp.status < 400 )
       => IF Decoded.ok /\ isinstance(Decoded.val, "dict")
          THEN lastOp.exc = "none" /\ lastOp.ret = Decoded.val
          ELSE lastOp.exc = "CannotConnect"
    /\ ( /\ Requested(LOGIN_PATH) \/ Requested(INFO_PATH)
         /\ lastOp.resp.status = 202 )
       => lastOp.exc = "none" /\ lastOp.ret = EmptyDict
    /\ ( Requested(LOGIN_PATH) /\ lastOp.exc = "none" )
       => lastOp.ret = EmptyDict

C16_Witness ==
    /\ Requested(INFO_PATH)
    /\ lastOp.resp.status = 202
    /\ Decoded.ok
    /\ isinstance(Decoded.val, "dict")
    /\ Decoded.val # EmptyDict
    /\ lastOp.ret = EmptyDict

------------------------------------------------------------------------------
(* Properties of the response parser, continued *)

\* What one more get_vehicles() gives in the present state when the server
\* answers as it did to the last one.
Again == get_vehicles(Self, lastOp.resp)

------------------------------------------------------------------------------
(* Properties of the session manager, continued *)

\* The last call was a get_vehicles() that the info endpoint answered with
\* 401 or 403.
LostAuthorization ==
    /\ Answered("get_vehicles", INFO_PATH)
    /\ lastOp.resp.status \in {401, 403}

\* C18: a get_vehicles() answered with 401 or 403 raises InvalidAuth and
\* leaves the instance not authenticated, not connected, with the session it
\* held; a connect() that comes next sends one login request over that
\* session and creates no session.
C18_LostAuthorizationForcesLogin ==
    /\ [] ( LostAuthorization
            => /\ lastOp.exc = "InvalidAuth"
               /\ ~authenticated
               /\ ~is_connected(Self)
               /\ session # None
               /\ session = lastOp.pre.session
               /\ open = lastOp.pre.open )
    /\ [][ ( LostAuthorization /\ lastOp'.op = "connect" )
           => /\ Len(lastOp'.sent) = 1
              /\ lastOp'.sent[1].path = LOGIN_PATH
              /\ lastOp'.sent[1].session = session
              /\ session' = session
              /\ created' = created ]_vars

C18_Witness ==
    /\ LostAuthorization
    /\ lastOp.pre.authenticated
    /\ lastOp.pre.owns_session
    /\ ~authenticated
    /\ session \in open

\* C19: in every reachable state, authenticated implies that a session is
\* held, so is_connected is true exactly when authenticated is; after close()
\* on an instance that owns its session both are false.
C19_AuthenticatedHoldsSession ==
    /\ authenticated => session # None
    /\ is_connected(Self) = authenticated
    /\ ( lastOp.op = "close" /\ lastOp.pre.owns_session )
       => ~authenticated /\ ~is_connected(Self)

C19_Witness ==
    /\ lastOp.op = "close"
    /\ lastOp.pre.owns_session
    /\ lastOp.pre.authenticated
    /\ lastOp.pre.session # None
    /\ session = None
    /\ ~authenticated

\* C20: a get_vehicles() that fails with CannotConnect, whether the transport
\* failed, the status was 400 or more but not 401/403, the body was not a
\* JSON object or `cars` was not an array, leaves the authenticated flag and
\* the held session as they were; a get_vehicles() that comes next on an
\* authenticated instance sends its request over that session, with no login
\* before it.
C20_CannotConnectKeepsLogin ==
    /\ [] ( ( lastOp.op = "get_vehicles" /\ lastOp.exc = "CannotConnect" )
            => /\ authenticated = lastOp.pre.authenticated
               /\ session = lastOp.pre.session
               /\ open = lastOp.pre.open
               /\ lastOp.pre.session # None )
    /\ [][ ( /\ lastOp.op = "get_vehicles"
             /\ lastOp.exc = "CannotConnect"
             /\ authenticated
             /\ lastOp'.op = "get_vehicles" )
           => /\ Len(lastOp'.sent) = 1
              /\ lastOp'.sent[1].path = INFO_PATH
              /\ lastOp'.sent[1].session = session
              /\ lastOp'.exc # "RuntimeError" ]_vars

C20_Witness ==
    /\ lastOp.op = "get_vehicles"
    /\ lastOp.exc = "CannotConnect"
    /\ lastOp.resp.kind = "ClientError"
    /\ lastOp.pre.authenticated
    /\ authenticated
    /\ session \in open

\* C21: an instance built on the caller's session holds that session, open
\* and never closed by the client, after every call, a failed scope entry
\* included; its close() only resets the authenticated flag, which leaves
\* the instance with a session and not authenticated.
C21_CallerSessionUntouched ==
    ~owns_session
    => /\ session = CallerSession
       /\ CallerSession \in open
       /\ closes[CallerSession] = 0
       /\ created = 0
       /\ lastOp.op \in {"close", "__aexit__"}
          => /\ ~authenticated
             /\ session # None
             /\ [Self EXCEPT !.authenticated = lastOp.pre.authenticated] = lastOp.pre
       /\ ( lastOp.op = "__aenter__" /\ lastOp.exc # "none" )
          => ~authenticated /\ session = lastOp.pre.session

C21_Witness ==
    /\ ~owns_session
    /\ lastOp.op = "close"
    /\ lastOp.pre.authenticated
    /\ ~authenticated
    /\ session = CallerSession
    /\ CallerSession \in open

------------------------------------------------------------------------------
(* Properties of interleaved calls *)

NoCallInFlight == \A t \in Tasks : tasks[t].pc = "idle"

\* C22 as stated: whatever the interleaving of connect(), authenticate(),
\* get_vehicles() and close() at their awaits, at most one session that the
\* instance created is open at any time, and once the last close() has
\* returned every session it created is closed.
C22_Original ==
    /\ Cardinality(open \cap (1..created)) <= 1
    /\ ( NoCallInFlight /\ lastOp.op = "close" ) => NoneOpen

------------------------------------------------------------------------------
(* Properties of the response parser, continued *)

\* The last of the positions in m.
Last(m) == CHOOSE j \in m : \A k \in m : k <= j

First(m) == CHOOSE j \in m : \A k \in m : j <= k

\* C23: a vehicle's position is what the last feature carrying its
\* stringified carid gives, null if that feature cannot be parsed, whatever
\* earlier features with the same carid hold; features that are not objects,
\* have no object `properties` or no `carid` count for nothing, and a vehicle
\* without a feature has no position.
C23_LastFeatureWins ==
    ( lastOp.exc = "none" /\ AnsweredCars )
    => LET cars == ValidCars
           features == CollectionFeatures
       IN  /\ Len(lastOp.ret.v) = Len(cars)
           /\ \A i \in 1..Len(cars) :
                 LET m == Matching(features, py_str(cars[i].v[Key("id")]))
                 IN  lastOp.ret.v[i].position =
                        IF m = {} THEN NoPosition
                        ELSE ParseFeature(features[Last(m)]).position

\* car 5 has two features: the first is well-formed, the last is not, and
\* the vehicle has no position
C23_Witness ==
    /\ lastOp.exc = "none"
    /\ AnsweredCars
    /\ Len(lastOp.ret.v) = 1
    /\ lastOp.ret.v[1].position = NoPosition
    /\ LET m == Matching(CollectionFeatures, lastOp.ret.v[1].id)
       IN  /\ Cardinality(m) = 2
           /\ ParseFeature(CollectionFeatures[First(m)]).position # NoPosition

====
